---- MODULE Spec2Model ----
(***************************************************************************)
(* Model of multi_pool_alloc.hpp: the two-tier bitmap pool (pool_t), the   *)
(* block-growing multi-pool (multi_pool_t) and the per-type allocator      *)
(* handle (allocator_t).                                                   *)
(*                                                                         *)
(* Words are naturals below 2^WordBits.  The template parameter WordType   *)
(* is instantiated with a WordBits-bit unsigned word, so a pool has        *)
(* WordBits*WordBits slots and a block has WordBits pools.  Addresses are  *)
(* naturals below 2^AddrBits; one address unit holds one word or one T.    *)
(***************************************************************************)
EXTENDS Integers, Sequences, FiniteSets, Bags, TLC

\* ------------------------------------------------------------------------
\* Scale of the model
\* ------------------------------------------------------------------------
\* word_bits: the width of WordType (64 in the default instantiation)
WordBits == 2

\* a multi-pool grows to at most MaxBlocks blocks
MaxBlocks == 2

\* callers that follow no pattern own at most MaxLive pointers
MaxLive == 7

\* the churn driver allocates batches of at most MaxChurn pointers
MaxChurn == 9

\* ... and performs at most MaxRuns runs
MaxRuns == 2

\* threads using handles, and allocate calls per thread
NumThreads == 2

MaxOps == 2

\* pointers owned at one time when the handles are used by one thread
MaxSeqLive == 4

\* width of an address and of size_t
AddrBits == 8

NULL == 0

AllOnes == 2^WordBits - 1

Word == 0..AllOnes

PoolSlots == WordBits * WordBits

pools_in_block == WordBits

AddrSpace == 2^AddrBits

\* struct pool_t { word unused_words; word unallocated_slots[b]; T data[b*b]; }
DataOffset == 1 + WordBits

PoolBytes == DataOffset + PoolSlots

BlockBytes == PoolBytes * pools_in_block

\* The first n regions malloc may hand out: pairwise disjoint, possibly
\* adjacent, in no particular order.
HeapBases(n) == { 1 + r * BlockBytes : r \in 0..(n - 1) }

Types == {"T1", "T2"}

Threads == 1..NumThreads

\* ------------------------------------------------------------------------
\* impl:: bit helpers
\* ------------------------------------------------------------------------
test_bit(n, bit) == (n \div 2^bit) % 2 = 1

set_bit(n, bit) == IF test_bit(n, bit) THEN n ELSE (n + 2^bit) % 2^WordBits

clear_bit(n, bit) == IF test_bit(n, bit) THEN n - 2^bit ELSE n

RECURSIVE ctz(_)
ctz(n) == IF n % 2 = 1 THEN 0 ELSE 1 + ctz(n \div 2)

\* ctz on 0 is undefined: the hardware scan yields the operand width
\* (tzcnt) or whatever the destination held (bsf), the portable loop does
\* not return.  Values 0..WordBits-1 are the in-range results, WordBits
\* stands for every result that indexes outside the bitmap (or no result).
ctz_outcomes(n) == IF n = 0 THEN 0..WordBits ELSE {ctz(n)}

\* ------------------------------------------------------------------------
\* pool_t
\* ------------------------------------------------------------------------
pool_init ==
    [unused_words |-> AllOnes,
     unallocated_slots |-> [k \in 0..(WordBits - 1) |-> AllOnes]]

\* pool_t::allocate that never clears the bucket's bit in unused_words
pool_allocate_keep_summary(pool) ==
    UNION { IF bucket >= WordBits
            THEN {[pool |-> pool, index |-> 0, ub |-> TRUE, ctz0 |-> TRUE]}
            ELSE { IF slot >= WordBits
                   THEN [pool |-> pool, index |-> 0, ub |-> TRUE, ctz0 |-> TRUE]
                   ELSE [pool  |-> [unused_words |-> pool.unused_words,
                                    unallocated_slots |->
                                       [pool.unallocated_slots EXCEPT ![bucket] =
                                          clear_bit(@, slot)]],
                         index |-> bucket * WordBits + slot,
                         ub    |-> FALSE,
                         ctz0  |-> (pool.unused_words = 0
                                    \/ pool.unallocated_slots[bucket] = 0)]
                   : slot \in ctz_outcomes(pool.unallocated_slots[bucket]) }
          : bucket \in ctz_outcomes(pool.unused_words) }

\* The set of outcomes of pool_t::allocate: the pool afterwards, the index
\* of the returned element of data, whether ctz was applied to 0 (ctz0),
\* and whether an index left the bitmap (ub), after which nothing about the
\* call is defined.
pool_allocate(pool) ==
    UNION { IF bucket >= WordBits
            THEN {[pool |-> pool, index |-> 0, ub |-> TRUE, ctz0 |-> TRUE]}
            ELSE { IF slot >= WordBits
                   THEN [pool |-> pool, index |-> 0, ub |-> TRUE, ctz0 |-> TRUE]
                   ELSE LET w  == clear_bit(pool.unallocated_slots[bucket], slot)
                            us == [pool.unallocated_slots EXCEPT ![bucket] = w]
                            uw == IF w = 0
                                  THEN clear_bit(pool.unused_words, bucket)
                                  ELSE pool.unused_words
                        IN [pool  |-> [unused_words |-> uw, unallocated_slots |-> us],
                            index |-> bucket * WordBits + slot,
                            ub    |-> FALSE,
                            ctz0  |-> (pool.unused_words = 0
                                       \/ pool.unallocated_slots[bucket] = 0)]
                   : slot \in ctz_outcomes(pool.unallocated_slots[bucket]) }
          : bucket \in ctz_outcomes(pool.unused_words) }

\* pool_t::deallocate that sets the slot bit and forgets unused_words
pool_deallocate_slot_only(pool, index) ==
    LET bucket == index \div WordBits
        slot   == index % WordBits
        w      == set_bit(pool.unallocated_slots[bucket], slot)
    IN [unused_words |-> pool.unused_words,
        unallocated_slots |-> [pool.unallocated_slots EXCEPT ![bucket] = w]]

\* pool_t::deallocate(ptr), with index = uint32_t(ptr - data)
pool_deallocate(pool, index) ==
    LET bucket == index \div WordBits
        slot   == index % WordBits
        w      == set_bit(pool.unallocated_slots[bucket], slot)
        us     == [pool.unallocated_slots EXCEPT ![bucket] = w]
        uw     == IF w = AllOnes
                  THEN set_bit(pool.unused_words, bucket)
                  ELSE pool.unused_words
    IN [unused_words |-> uw, unallocated_slots |-> us]

\* full() that answers true as soon as one bucket is exhausted
pool_full_any_bucket(pool) == pool.unused_words # AllOnes

pool_full(pool) == pool.unused_words = 0

\* &pools[pool_idx].data[index] of the block at base
SlotAddr(base, pool_idx, index) == base + pool_idx * PoolBytes + DataOffset + index

\* ------------------------------------------------------------------------
\* multi_pool_t: a value mp is the vector memory_blocks; the pools a block
\* points to are kept in the block's record.
\* ------------------------------------------------------------------------
NoBlock == -1

fresh_block(addr) ==
    [ptr |-> addr, unmaxed_pools |-> AllOnes,
     pools |-> [i \in 0..(pools_in_block - 1) |-> pool_init]]

\* new_block(): push_back {malloc(...), ~0}, then init the pools through
\* the returned pointer; with a null pointer the init writes through null.
new_block(mp, addr) ==
    [mp |-> Append(mp, fresh_block(addr)),
     fault |-> IF addr = NULL THEN "null_deref" ELSE "none"]

\* a scan that starts one block below the back of the vector
scan_start_skip(mp) == (Len(mp) - 2) % AddrSpace

\* auto i = memory_blocks.size() - 1, an unsigned value
scan_start(mp) == (Len(mp) - 1) % AddrSpace

\* for (i = size() - 1; i < size(); --i) with an unsigned index: the block
\* index at which the allocate loop returns, or NoBlock when the loop ends.
RECURSIVE alloc_scan(_, _)
alloc_scan(mp, i) ==
    IF i < Len(mp)
    THEN IF mp[i + 1].unmaxed_pools # 0
         THEN i
         ELSE alloc_scan(mp, (i - 1) % AddrSpace)
    ELSE NoBlock

\* The values i takes in the body of the allocate loop, in order.
RECURSIVE alloc_visits(_, _)
alloc_visits(mp, i) ==
    IF i < Len(mp)
    THEN IF mp[i + 1].unmaxed_pools # 0
         THEN <<i>>
         ELSE <<i>> \o alloc_visits(mp, (i - 1) % AddrSpace)
    ELSE << >>

\* The set of outcomes of multi_pool_t::allocate(1); mallocs is the set of
\* values malloc may return if it is called.
mp_allocate(mp, mallocs) ==
    LET i == alloc_scan(mp, scan_start(mp))
    IN IF i # NoBlock
       THEN LET memory_block == mp[i + 1]
                pool_idx == ctz(memory_block.unmaxed_pools)
            IN { IF o.ub
                 THEN [mp |-> mp, ptr |-> NULL, fault |-> "ctz_oob",
                       malloc_ret |-> "not_called"]
                 ELSE LET um == IF pool_full(o.pool)
                                THEN clear_bit(memory_block.unmaxed_pools, pool_idx)
                                ELSE memory_block.unmaxed_pools
                      IN [mp |-> [mp EXCEPT ![i + 1] =
                                    [ptr |-> memory_block.ptr,
                                     unmaxed_pools |-> um,
                                     pools |-> [memory_block.pools
                                                EXCEPT ![pool_idx] = o.pool]]],
                          ptr |-> SlotAddr(memory_block.ptr, pool_idx, o.index),
                          fault |-> IF o.ctz0 THEN "ctz_zero" ELSE "none",
                          malloc_ret |-> "not_called"]
                 : o \in pool_allocate(memory_block.pools[pool_idx]) }
       ELSE { LET nb == new_block(mp, addr)
              IN IF nb.fault # "none"
                 THEN [mp |-> nb.mp, ptr |-> NULL, fault |-> nb.fault,
                       malloc_ret |-> "null"]
                 ELSE LET back == nb.mp[Len(nb.mp)]
                          o == CHOOSE x \in pool_allocate(back.pools[0]) : TRUE
                      IN [mp |-> [nb.mp EXCEPT ![Len(nb.mp)].pools[0] = o.pool],
                          ptr |-> SlotAddr(back.ptr, 0, o.index),
                          fault |-> "none",
                          malloc_ret |-> "block"]
              : addr \in mallocs }

\* size_t pool_idx = ((u8_t*)ptr - (u8_t*)memory_block.ptr) / pool_size
pool_idx_of(memory_block, ptr) ==
    ((ptr - memory_block.ptr) % AddrSpace) \div PoolBytes

RECURSIVE dealloc_scan(_, _, _)
dealloc_scan(mp, ptr, i) ==
    IF i < Len(mp)
    THEN IF pool_idx_of(mp[i + 1], ptr) < pools_in_block
         THEN i
         ELSE dealloc_scan(mp, ptr, (i - 1) % AddrSpace)
    ELSE NoBlock

\* The values i takes in the body of the deallocate loop, in order.
RECURSIVE dealloc_visits(_, _, _)
dealloc_visits(mp, ptr, i) ==
    IF i < Len(mp)
    THEN IF pool_idx_of(mp[i + 1], ptr) < pools_in_block
         THEN <<i>>
         ELSE <<i>> \o dealloc_visits(mp, ptr, (i - 1) % AddrSpace)
    ELSE << >>

\* multi_pool_t::deallocate that marks every pool of the block as unmaxed
mp_deallocate_unmax_all(mp, ptr) ==
    LET i == dealloc_scan(mp, ptr, scan_start(mp))
    IN IF i = NoBlock
       THEN mp
       ELSE LET memory_block == mp[i + 1]
                pool_idx == pool_idx_of(memory_block, ptr)
                index == (ptr - SlotAddr(memory_block.ptr, pool_idx, 0)) % AddrSpace
            IN [mp EXCEPT ![i + 1] =
                  [ptr |-> memory_block.ptr,
                   unmaxed_pools |-> AllOnes,
                   pools |-> [memory_block.pools EXCEPT ![pool_idx] =
                                pool_deallocate(memory_block.pools[pool_idx], index)]]]

\* multi_pool_t::deallocate(ptr, 1)
mp_deallocate(mp, ptr) ==
    LET i == dealloc_scan(mp, ptr, scan_start(mp))
    IN IF i = NoBlock
       THEN mp
       ELSE LET memory_block == mp[i + 1]
                pool_idx == pool_idx_of(memory_block, ptr)
                index == (ptr - SlotAddr(memory_block.ptr, pool_idx, 0)) % AddrSpace
            IN [mp EXCEPT ![i + 1] =
                  [ptr |-> memory_block.ptr,
                   unmaxed_pools |-> set_bit(memory_block.unmaxed_pools, pool_idx),
                   pools |-> [memory_block.pools EXCEPT ![pool_idx] =
                                pool_deallocate(memory_block.pools[pool_idx], index)]]]

\* ------------------------------------------------------------------------
\* State
\* ------------------------------------------------------------------------
VARIABLES
    objects,        \* the multi_pool_t objects constructed so far; object o
                    \* has element type objects[o].T and the block vector
                    \* objects[o].memory_blocks
    live,           \* bag of the pointers callers currently own
    fault,          \* "none", or the undefined behaviour the last call ran into
    malloc_ret,     \* what malloc returned during the last call
    phase,          \* position of the churn driver: "alloc" or "free"
                    \* ("mixed" when the callers follow no pattern)
    run,            \* number of completed allocate-all/free-all runs
    multi_pool,     \* multi_pool[T]: allocator_t<T>::multi_pool (NULL or an object)
    mutex,          \* mutex[T]: the thread holding allocator_t<T>::mutex, or 0
    pc,             \* pc[t]: where thread t is in its program
    ttype,          \* ttype[t]: the element type of the handle thread t uses
    arg,            \* arg[t]: the pointer thread t is deallocating
    ops             \* ops[t]: number of allocate calls thread t has made

poolvars == <<objects, live, fault, malloc_ret>>

drivervars == <<phase, run>>

handlevars == <<multi_pool, mutex, pc, ttype, arg, ops>>

vars == <<objects, live, fault, malloc_ret, phase, run,
          multi_pool, mutex, pc, ttype, arg, ops>>

this == 1

\* the values malloc may return: null, or a region no block occupies
malloc_choices(regions) ==
    {NULL} \cup (HeapBases(regions) \ UNION { { objects[o].memory_blocks[j].ptr :
                                        j \in DOMAIN objects[o].memory_blocks } :
                                      o \in DOMAIN objects })

\* new multi_pool_t<T>: the constructor calls new_block() on an empty vector
new_multi_pool(T, addr) == [T |-> T, memory_blocks |-> new_block(<< >>, addr).mp]

\* One multi_pool_t, constructed (malloc having succeeded), no pointer out.
InitPool ==
    /\ \E addr \in HeapBases(MaxBlocks) : objects = << new_multi_pool("T1", addr) >>
    /\ live = EmptyBag
    /\ fault = "none"
    /\ malloc_ret = "block"
    /\ run = 0
    /\ multi_pool = [T \in Types |-> NULL]
    /\ mutex = [T \in Types |-> 0]
    /\ pc = [t \in Threads |-> "none"]
    /\ ttype = [t \in Threads |-> "T1"]
    /\ arg = [t \in Threads |-> NULL]
    /\ ops = [t \in Threads |-> 0]

Init == InitPool /\ phase = "mixed"

\* multi_pool_t::allocate(1) on object o.  Once a call has applied ctz to 0
\* the model records one of its outcomes in fault and follows the program
\* no further through allocate; an outcome outside the bitmaps or a write
\* through null ends the behaviour.
AllocateOn(o, regions) ==
    /\ fault = "none"
    /\ \E r \in mp_allocate(objects[o].memory_blocks, malloc_choices(regions)) :
          /\ Len(r.mp) <= MaxBlocks
          /\ objects' = [objects EXCEPT ![o].memory_blocks = r.mp]
          /\ fault' = r.fault
          /\ malloc_ret' = r.malloc_ret
          /\ live' = IF r.ptr # NULL THEN live (+) SetToBag({r.ptr}) ELSE live

\* multi_pool_t::deallocate(p, 1) on object o
DeallocateOn(o, p) ==
    /\ fault \in {"none", "ctz_zero"}
    /\ objects' = [objects EXCEPT ![o].memory_blocks = mp_deallocate(@, p)]
    /\ live' = live (-) SetToBag({p})
    /\ malloc_ret' = "not_called"
    /\ UNCHANGED fault

\* a caller invokes allocate(1)
Allocate ==
    /\ BagCardinality(live) < MaxLive
    /\ AllocateOn(this, MaxBlocks)
    /\ UNCHANGED <<drivervars, handlevars>>

\* a caller invokes deallocate(p, 1) on a pointer it owns
Deallocate ==
    /\ \E p \in BagToSet(live) : DeallocateOn(this, p)
    /\ UNCHANGED <<drivervars, handlevars>>

Next == Allocate \/ Deallocate

Spec == Init /\ [][Next]_vars

\* ------------------------------------------------------------------------
\* The churn drivers (the two main() programs): allocate a batch, then
\* free all of it in some order, and again.
\* ------------------------------------------------------------------------
InitChurn == InitPool /\ phase = "alloc"

ChurnAllocate ==
    /\ phase = "alloc"
    /\ BagCardinality(live) < MaxChurn
    /\ AllocateOn(this, MaxBlocks)
    /\ UNCHANGED <<drivervars, handlevars>>

ChurnDeallocate ==
    /\ phase \in {"alloc", "free"}
    /\ \E p \in BagToSet(live) : DeallocateOn(this, p)
    /\ phase' = "free"
    /\ UNCHANGED <<run, handlevars>>

ChurnNextRun ==
    /\ phase = "free"
    /\ live = EmptyBag
    /\ fault = "none"
    /\ run + 1 < MaxRuns
    /\ run' = run + 1
    /\ phase' = "alloc"
    /\ malloc_ret' = "not_called"
    /\ UNCHANGED <<objects, live, fault, handlevars>>

NextChurn == ChurnAllocate \/ ChurnDeallocate \/ ChurnNextRun

SpecChurn == InitChurn /\ [][NextChurn]_vars

\* ------------------------------------------------------------------------
\* allocator_t<T>: threads that each construct a handle for their element
\* type and then allocate and deallocate through it.
\* ------------------------------------------------------------------------
InitHandles ==
    /\ objects = << >>
    /\ live = EmptyBag
    /\ fault = "none"
    /\ malloc_ret = "not_called"
    /\ phase = "mixed"
    /\ run = 0
    /\ multi_pool = [T \in Types |-> NULL]
    /\ mutex = [T \in Types |-> 0]
    /\ pc = [t \in Threads |-> "start"]
    /\ ttype \in [Threads -> Types]
    /\ arg = [t \in Threads |-> NULL]
    /\ ops = [t \in Threads |-> 0]

\* the block of object o that contains address p, if any
Contains(o, p) ==
    \E j \in DOMAIN objects[o].memory_blocks :
       LET base == objects[o].memory_blocks[j].ptr
       IN base # NULL /\ base <= p /\ p < base + BlockBytes

\* the element type of the multi-pool that issued p
TypeOfPtr(p) == objects[CHOOSE o \in DOMAIN objects : Contains(o, p)].T

\* allocator_t(): if (!multi_pool) ...
CtorTest(t) ==
    /\ pc[t] = "start"
    /\ fault = "none"
    /\ pc' = [pc EXCEPT ![t] = IF multi_pool[ttype[t]] = NULL
                                THEN "ctor_new" ELSE "ready"]
    /\ UNCHANGED <<poolvars, drivervars, multi_pool, mutex, ttype, arg, ops>>

\* a constructor that stores the new multi-pool in the static pointer of
\* every element type
CtorNew_shared(t) ==
    /\ pc[t] = "ctor_new"
    /\ fault = "none"
    /\ \E addr \in malloc_choices(NumThreads) :
          /\ objects' = Append(objects, new_multi_pool(ttype[t], addr))
          /\ fault' = new_block(<< >>, addr).fault
          /\ malloc_ret' = IF addr = NULL THEN "null" ELSE "block"
    /\ multi_pool' = [T \in Types |-> Len(objects) + 1]
    /\ pc' = [pc EXCEPT ![t] = "ready"]
    /\ UNCHANGED <<live, drivervars, mutex, ttype, arg, ops>>

\* ... multi_pool = new multi_pool_t<T>;
CtorNew(t) ==
    /\ pc[t] = "ctor_new"
    /\ fault = "none"
    /\ \E addr \in malloc_choices(NumThreads) :
          /\ objects' = Append(objects, new_multi_pool(ttype[t], addr))
          /\ fault' = new_block(<< >>, addr).fault
          /\ malloc_ret' = IF addr = NULL THEN "null" ELSE "block"
    /\ multi_pool' = [multi_pool EXCEPT ![ttype[t]] = Len(objects) + 1]
    /\ pc' = [pc EXCEPT ![t] = "ready"]
    /\ UNCHANGED <<live, drivervars, mutex, ttype, arg, ops>>

\* template <typename U> allocator_t(allocator_t<U>& other): thread t, which
\* holds a handle for U, constructs from it a handle for another element
\* type T; the constructor body is that of allocator_t() and never reads
\* other.
Rebind(t) ==
    /\ pc[t] = "ready"
    /\ fault = "none"
    /\ \E T \in Types \ {ttype[t]} : ttype' = [ttype EXCEPT ![t] = T]
    /\ pc' = [pc EXCEPT ![t] = "start"]
    /\ UNCHANGED <<poolvars, drivervars, multi_pool, mutex, arg, ops>>

\* an allocate that enters the call without waiting for the mutex
LockAllocate_nowait(t) ==
    /\ pc[t] = "ready"
    /\ fault = "none"
    /\ ops[t] < MaxOps
    /\ mutex' = [mutex EXCEPT ![ttype[t]] = t]
    /\ pc' = [pc EXCEPT ![t] = "allocate"]
    /\ ops' = [ops EXCEPT ![t] = @ + 1]
    /\ UNCHANGED <<poolvars, drivervars, multi_pool, ttype, arg>>

\* allocator_t::allocate: lock_guard lg(mutex)
LockAllocate(t) ==
    /\ pc[t] = "ready"
    /\ fault = "none"
    /\ ops[t] < MaxOps
    /\ mutex[ttype[t]] = 0
    /\ mutex' = [mutex EXCEPT ![ttype[t]] = t]
    /\ pc' = [pc EXCEPT ![t] = "allocate"]
    /\ ops' = [ops EXCEPT ![t] = @ + 1]
    /\ UNCHANGED <<poolvars, drivervars, multi_pool, ttype, arg>>

\* allocator_t::allocate: return multi_pool->allocate(n), releasing the lock
CallAllocate(t) ==
    /\ pc[t] = "allocate"
    /\ AllocateOn(multi_pool[ttype[t]], NumThreads)
    /\ mutex' = [mutex EXCEPT ![ttype[t]] = 0]
    /\ pc' = [pc EXCEPT ![t] = "ready"]
    /\ UNCHANGED <<drivervars, multi_pool, ttype, arg, ops>>

\* allocator_t::deallocate of a pointer of the handle's type that a caller
\* owns and no other thread is deallocating: lock_guard lg(mutex)
LockDeallocate(t) ==
    /\ pc[t] = "ready"
    /\ fault = "none"
    /\ mutex[ttype[t]] = 0
    /\ \E p \in BagToSet(live) :
          /\ TypeOfPtr(p) = ttype[t]
          /\ \A u \in Threads : ~(pc[u] = "deallocate" /\ arg[u] = p)
          /\ arg' = [arg EXCEPT ![t] = p]
    /\ mutex' = [mutex EXCEPT ![ttype[t]] = t]
    /\ pc' = [pc EXCEPT ![t] = "deallocate"]
    /\ UNCHANGED <<poolvars, drivervars, multi_pool, ttype, ops>>

\* allocator_t::deallocate: multi_pool->deallocate(ptr, n), releasing the lock
CallDeallocate(t) ==
    /\ pc[t] = "deallocate"
    /\ DeallocateOn(multi_pool[ttype[t]], arg[t])
    /\ mutex' = [mutex EXCEPT ![ttype[t]] = 0]
    /\ pc' = [pc EXCEPT ![t] = "ready"]
    /\ arg' = [arg EXCEPT ![t] = NULL]
    /\ UNCHANGED <<drivervars, multi_pool, ttype, ops>>

NextHandles ==
    \E t \in Threads :
       \/ CtorTest(t)
       \/ CtorNew(t)
       \/ Rebind(t)
       \/ LockAllocate(t)
       \/ CallAllocate(t)
       \/ LockDeallocate(t)
       \/ CallDeallocate(t)

SpecHandles == InitHandles /\ [][NextHandles]_vars

\* ------------------------------------------------------------------------
\* allocator_t<T> in sequential use: one thread owns the handles 1..NumThreads
\* and constructs them and calls through them one call after the other;
\* arg[h] is the pointer the last allocate through handle h returned, until
\* it is deallocated.
\* ------------------------------------------------------------------------
\* allocator_t(): if (!multi_pool) multi_pool = new multi_pool_t<T>
SeqConstruct(h) ==
    /\ pc[h] = "start"
    /\ fault = "none"
    /\ IF multi_pool[ttype[h]] = NULL
       THEN /\ \E addr \in malloc_choices(NumThreads) :
                  /\ objects' = Append(objects, new_multi_pool(ttype[h], addr))
                  /\ fault' = new_block(<< >>, addr).fault
                  /\ malloc_ret' = IF addr = NULL THEN "null" ELSE "block"
            /\ multi_pool' = [multi_pool EXCEPT ![ttype[h]] = Len(objects) + 1]
       ELSE UNCHANGED <<objects, fault, malloc_ret, multi_pool>>
    /\ pc' = [pc EXCEPT ![h] = "ready"]
    /\ UNCHANGED <<live, drivervars, mutex, ttype, arg, ops>>

\* p = h.allocate(1)
SeqAllocate(h) ==
    /\ pc[h] = "ready"
    /\ BagCardinality(live) < MaxSeqLive
    /\ AllocateOn(multi_pool[ttype[h]], NumThreads)
    /\ arg' = [arg EXCEPT ![h] =
                 IF live' = live
                 THEN @
                 ELSE CHOOSE p \in BagToSet(live') :
                         CopiesIn(p, live') > CopiesIn(p, live)]
    /\ UNCHANGED <<drivervars, multi_pool, mutex, pc, ttype, ops>>

\* b.deallocate(p, 1) with the pointer p that handle a returned; the two
\* handles are allocator_t<T> for the same T
SeqDeallocate(b, a) ==
    /\ pc[b] = "ready"
    /\ arg[a] # NULL
    /\ ttype[a] = ttype[b]
    /\ DeallocateOn(multi_pool[ttype[b]], arg[a])
    /\ arg' = [arg EXCEPT ![a] = NULL]
    /\ UNCHANGED <<drivervars, multi_pool, mutex, pc, ttype, ops>>

NextSeq ==
    \/ \E h \in Threads : SeqConstruct(h)
    \/ \E h \in Threads : SeqAllocate(h)
    \/ \E a, b \in Threads : SeqDeallocate(b, a)

SpecSeq == InitHandles /\ [][NextSeq]_vars

TypeOK ==
    /\ fault \in {"none", "ctz_zero", "ctz_oob", "null_deref"}
    /\ phase \in {"alloc", "free", "mixed"}
    /\ \A o \in DOMAIN objects : \A j \in DOMAIN objects[o].memory_blocks :
          objects[o].memory_blocks[j].unmaxed_pools \in Word
    /\ \A T \in Types : multi_pool[T] \in {NULL} \cup DOMAIN objects

\* ------------------------------------------------------------------------
\* Properties
\* ------------------------------------------------------------------------
Blocks == objects[this].memory_blocks

NumLive == BagCardinality(live)

SlotBit(block, i, index) ==
    test_bit(block.pools[i].unallocated_slots[index \div WordBits], index % WordBits)

\* C1: no pointer is owned twice: allocate never returns a slot that a
\* caller still owns.
C1_NoAlias == \A p \in BagToSet(live) : CopiesIn(p, live) = 1

\* C2: ctz is never invoked on a zero word: the pool that allocate selects
\* through ctz(unmaxed_pools) has a non-zero unused_words, and the bucket
\* that pool selects has a non-zero unallocated_slots word.
C2_CtzNeverZero ==
    LET i == alloc_scan(Blocks, (Len(Blocks) - 1) % AddrSpace)
    IN (fault = "none" /\ i # NoBlock) =>
          LET pool == Blocks[i + 1].pools[ctz(Blocks[i + 1].unmaxed_pools)]
          IN /\ pool.unused_words # 0
             /\ pool.unallocated_slots[ctz(pool.unused_words)] # 0

\* C3 (invariant P1): bit k of unused_words is set iff unallocated_slots[k]
\* is non-zero, for every bucket of every pool.
C3_P1 ==
    \A j \in DOMAIN Blocks : \A i \in 0..(pools_in_block - 1) :
       \A k \in 0..(WordBits - 1) :
          test_bit(Blocks[j].pools[i].unused_words, k)
             <=> (Blocks[j].pools[i].unallocated_slots[k] # 0)

\* C4 (invariant B1): bit i of a block's unmaxed_pools is set iff pool i of
\* the block is not full().
C4_B1 ==
    \A j \in DOMAIN Blocks : \A i \in 0..(pools_in_block - 1) :
       test_bit(Blocks[j].unmaxed_pools, i) <=> ~pool_full(Blocks[j].pools[i])

\* C5 (invariant P2): the bit of a slot is 1 iff no caller owns the slot.
C5_P2 ==
    \A j \in DOMAIN Blocks : \A i \in 0..(pools_in_block - 1) :
       \A index \in 0..(PoolSlots - 1) :
          SlotBit(Blocks[j], i, index)
             <=> ~BagIn(SlotAddr(Blocks[j].ptr, i, index), live)

\* C6: allocate, deallocate of the returned pointer, allocate again: the
\* second allocate returns the pointer of the first.
C6_RoundTrip ==
    (fault = "none" /\ NumLive < MaxLive) =>
       \A r1 \in mp_allocate(Blocks, malloc_choices(MaxBlocks)) :
          (r1.fault = "none" /\ Len(r1.mp) <= MaxBlocks) =>
             \A r2 \in mp_allocate(mp_deallocate(r1.mp, r1.ptr), {NULL}) :
                r2.ptr = r1.ptr

AllFree(block) ==
    /\ block.unmaxed_pools = AllOnes
    /\ \A i \in 0..(pools_in_block - 1) :
          /\ block.pools[i].unused_words = AllOnes
          /\ \A k \in 0..(WordBits - 1) :
                block.pools[i].unallocated_slots[k] = AllOnes

\* C7: once a batch allocated on a fresh multi-pool has been deallocated
\* completely, in whatever order, every bitmap word of every pool and the
\* unmaxed_pools of every block are all-ones again.
C7_ChurnRestores ==
    (phase = "free" /\ live = EmptyBag) => \A j \in DOMAIN Blocks : AllFree(Blocks[j])

C7_Witness ==
    /\ phase = "free"
    /\ live = EmptyBag
    /\ Len(Blocks) = 2
    /\ AllFree(Blocks[1])

\* the bitmaps of a multi-pool that has served n allocations and nothing else
FilledTo(mp, n) ==
    /\ Len(mp) = (IF n = 0 THEN 0 ELSE (n - 1) \div (PoolSlots * WordBits)) + 1
    /\ \A j \in DOMAIN mp : \A i \in 0..(pools_in_block - 1) :
          LET first == (j - 1) * PoolSlots * WordBits + i * PoolSlots
          IN /\ (mp[j].pools[i].unused_words = 0) <=> (n >= first + PoolSlots)
             /\ test_bit(mp[j].unmaxed_pools, i) <=> (n < first + PoolSlots)
             /\ \A index \in 0..(PoolSlots - 1) :
                   SlotBit(mp[j], i, index) <=> (n <= first + index)

\* C8: without deallocations, allocation number n (from 0) of a fresh
\* multi-pool returns slot n mod b*b of pool (n div b*b) mod b of block
\* n div b*b*b; a pool is full exactly after b*b allocations from it, its
\* unmaxed_pools bit is cleared then, and a block is appended exactly when
\* the blocks before it are filled.
C8_FillOrder ==
    [][(run = 0 /\ phase = "alloc" /\ phase' = "alloc" /\ fault' = "none")
         => LET n == NumLive
                mp == objects'[this].memory_blocks
            IN /\ live' = live (+) SetToBag({
                     SlotAddr(mp[n \div (PoolSlots * WordBits) + 1].ptr,
                              (n \div PoolSlots) % WordBits,
                              n % PoolSlots) })
               /\ FilledTo(mp, n + 1)]_vars

C8_Witness ==
    /\ run = 0
    /\ phase = "alloc"
    /\ fault = "none"
    /\ NumLive = PoolSlots * WordBits + 1
    /\ Len(Blocks) = 2
    /\ ~test_bit(Blocks[1].unmaxed_pools, 0)

\* C9: when malloc refuses the new block, allocate leaves the multi-pool
\* as it was (no block record appended, no bitmap changed) and the failure
\* reaches the caller as an allocation failure rather than as a fault.
C9_CleanMallocFailure ==
    [][malloc_ret' = "null" => (objects' = objects /\ fault' = "none")]_vars

\* C10: at most one multi-pool is ever created for an element type (the
\* static pointer is assigned once), and every pointer a caller owns lies
\* in a block of the multi-pool its type's handles use.
C10_OneMultiPoolPerType ==
    /\ \A o1, o2 \in DOMAIN objects : objects[o1].T = objects[o2].T => o1 = o2
    /\ \A p \in BagToSet(live) : Contains(multi_pool[TypeOfPtr(p)], p)

\* the indices of the slots of a pool whose bit is 1
FreeSlots(pool) ==
    { index \in 0..(PoolSlots - 1) :
        test_bit(pool.unallocated_slots[index \div WordBits], index % WordBits) }

Min(S) == CHOOSE x \in S : \A y \in S : x <= y

\* C14: pool_t::allocate on a pool with a free slot returns the free slot
\* of lowest index, for every pool of every reachable state.
C14_LowestFreeSlot ==
    \A j \in DOMAIN Blocks : \A i \in 0..(pools_in_block - 1) :
       (Blocks[j].ptr # NULL /\ FreeSlots(Blocks[j].pools[i]) # {}) =>
          \A o \in pool_allocate(Blocks[j].pools[i]) :
             ~o.ub /\ o.index = Min(FreeSlots(Blocks[j].pools[i]))

IsPrefix(s, t) == Len(s) <= Len(t) /\ \A j \in DOMAIN s : s[j] = t[j]

BasePtrs(mp) == [j \in DOMAIN mp |-> mp[j].ptr]

\* C15: a step appends a block only when every slot of every existing
\* block is owned by a caller (all slot bits 0), and in every step the old
\* sequence of block base pointers is a prefix of the new one.
C15_GrowOnlyWhenFull ==
    [][/\ IsPrefix(BasePtrs(Blocks), BasePtrs(objects'[this].memory_blocks))
       /\ Len(objects'[this].memory_blocks) > Len(Blocks) =>
             \A j \in DOMAIN Blocks : \A i \in 0..(pools_in_block - 1) :
                FreeSlots(Blocks[j].pools[i]) = {}]_vars

\* C18: a set bit in unused_words implies a non-empty bucket: for every
\* pool and k, bit k of unused_words set implies unallocated_slots[k] # 0.
C18_SetBitNonEmpty ==
    \A j \in DOMAIN Blocks : \A i \in 0..(pools_in_block - 1) :
       \A k \in 0..(WordBits - 1) :
          test_bit(Blocks[j].pools[i].unused_words, k)
             => Blocks[j].pools[i].unallocated_slots[k] # 0

\* a pool that has been allocated from and deallocated into: one bucket is
\* exhausted or leaked (bit 0), another is partly used with its bit set
C18_Witness ==
    /\ fault = "none"
    /\ \E j \in DOMAIN Blocks : \E i \in 0..(pools_in_block - 1) :
          \E k1, k2 \in 0..(WordBits - 1) :
             /\ ~test_bit(Blocks[j].pools[i].unused_words, k1)
             /\ Blocks[j].pools[i].unallocated_slots[k1] # 0
             /\ test_bit(Blocks[j].pools[i].unused_words, k2)
             /\ Blocks[j].pools[i].unallocated_slots[k2] \notin {0, AllOnes}

\* C19: a cleared bit in unmaxed_pools implies a pool without a free slot:
\* its unused_words is 0 and all its unallocated_slots words are 0.
C19_ClearedBitNoFreeSlot ==
    \A j \in DOMAIN Blocks : \A i \in 0..(pools_in_block - 1) :
       ~test_bit(Blocks[j].unmaxed_pools, i) =>
          /\ Blocks[j].pools[i].unused_words = 0
          /\ \A k \in 0..(WordBits - 1) :
                Blocks[j].pools[i].unallocated_slots[k] = 0

Descending(n) == [k \in 1..n |-> n - k]

AllMaxed(mp) == [j \in DOMAIN mp |-> [mp[j] EXCEPT !.unmaxed_pools = 0]]

\* the null pointer, the highest address, and every address from one below
\* a block to one past its end
ScanProbes(mp) ==
    {NULL, AddrSpace - 1} \cup
    UNION { IF mp[j].ptr = NULL
            THEN {}
            ELSE (mp[j].ptr - 1)..(mp[j].ptr + BlockBytes) : j \in DOMAIN mp }

\* C17: with n >= 1 blocks, the block scans of allocate and deallocate visit
\* n-1, n-2, ... in this order, every index at most once and none outside
\* 0..n-1; when no block qualifies (every unmaxed_pools word is 0, or the
\* pointer lies in no block) the scan visits exactly n-1, ..., 0 and ends.
C17_ScanVisits ==
    LET n == Len(Blocks)
        av == alloc_visits(Blocks, scan_start(Blocks))
    IN n >= 1 =>
       /\ Len(av) >= 1 /\ IsPrefix(av, Descending(n))
       /\ alloc_visits(AllMaxed(Blocks), scan_start(Blocks)) = Descending(n)
       /\ alloc_scan(AllMaxed(Blocks), scan_start(Blocks)) = NoBlock
       /\ \A p \in ScanProbes(Blocks) :
             LET dv == dealloc_visits(Blocks, p, scan_start(Blocks))
             IN /\ Len(dv) >= 1 /\ IsPrefix(dv, Descending(n))
                /\ dealloc_scan(Blocks, p, scan_start(Blocks)) = NoBlock
                      => dv = Descending(n)

\* two blocks, the older one found by a deallocate scan that passed over the
\* newer one, and an address that no block contains
C17_Witness ==
    /\ phase = "free" /\ Len(Blocks) >= 2 /\ fault = "none"
    /\ \E p \in BagToSet(live) :
          dealloc_visits(Blocks, p, scan_start(Blocks)) = <<Len(Blocks) - 1, Len(Blocks) - 2>>
    /\ \E p \in ScanProbes(Blocks) :
          dealloc_scan(Blocks, p, scan_start(Blocks)) = NoBlock

\* the block vector mp after the slot index of pool i of block j was released
\* with the pool's summary word uw, and nothing else was touched
ReleasedIn(mp, j, i, index, uw) ==
    [mp EXCEPT ![j] =
       [ptr |-> mp[j].ptr,
        unmaxed_pools |-> set_bit(mp[j].unmaxed_pools, i),
        pools |-> [mp[j].pools EXCEPT ![i] =
                     [unused_words |-> uw,
                      unallocated_slots |->
                         [mp[j].pools[i].unallocated_slots
                            EXCEPT ![index \div WordBits] = set_bit(@, index % WordBits)]]]]]

\* C16: in every state in which deallocate can be called, deallocate(p, 1)
\* of a live pointer p changes the block vector exactly in the block j and
\* pool i whose data array holds p: p's slot bit is set, bit i of block j's
\* unmaxed_pools is set, the pool's unused_words changes at most in the bit
\* of p's bucket, and every other block, unmaxed_pools word, pool and bucket
\* is unchanged.
C16_DeallocateFrame ==
    fault \in {"none", "ctz_zero"} =>
       \A p \in BagToSet(live) :
          \E j \in DOMAIN Blocks : \E i \in 0..(pools_in_block - 1) :
             \E index \in 0..(PoolSlots - 1) :
                /\ p = SlotAddr(Blocks[j].ptr, i, index)
                /\ \E uw \in {Blocks[j].pools[i].unused_words,
                              set_bit(Blocks[j].pools[i].unused_words,
                                      index \div WordBits)} :
                      mp_deallocate(Blocks, p) = ReleasedIn(Blocks, j, i, index, uw)

\* the newer block lies lower in memory than the older one; the older block
\* was filled before the newer one was made, so its free slot is one that a
\* deallocate released, and a pointer of the newer block is still owned
C16_Witness ==
    /\ phase = "free" /\ Len(Blocks) >= 2 /\ fault = "none"
    /\ Blocks[2].ptr < Blocks[1].ptr
    /\ \E i \in 0..(pools_in_block - 1) : \E index \in 0..(PoolSlots - 1) :
          /\ SlotBit(Blocks[1], i, index)
          /\ CopiesIn(SlotAddr(Blocks[1].ptr, i, index), live) = 0
    /\ \E p \in BagToSet(live) : Blocks[2].ptr <= p /\ p < Blocks[2].ptr + BlockBytes

\* thread t is inside multi_pool_t::allocate or multi_pool_t::deallocate
InCall(t) == pc[t] \in {"allocate", "deallocate"}

\* C11: of the threads of one element type at most one is inside
\* multi_pool_t::allocate or multi_pool_t::deallocate, that thread holds the
\* type's mutex from entering the call to leaving it, and while it is inside
\* no step of another thread changes a multi-pool of its type: the calls
\* take effect one at a time, in the order in which the mutex was acquired.
C11_MutualExclusion ==
    /\ [](\A t, u \in Threads :
            (InCall(t) /\ InCall(u) /\ ttype[t] = ttype[u]) => t = u)
    /\ [](\A t \in Threads : InCall(t) => mutex[ttype[t]] = t)
    /\ [][\A t \in Threads :
            (InCall(t) /\ pc'[t] = pc[t]) =>
               /\ mutex'[ttype[t]] = t
               /\ \A o \in DOMAIN objects :
                     objects[o].T = ttype[t] => objects'[o] = objects[o]]_vars

\* one thread is inside a call of its type while another thread of the same
\* type, which has already completed a call, waits for the mutex
C11_Witness ==
    \E t, u \in Threads :
       /\ t # u /\ ttype[t] = ttype[u]
       /\ InCall(t) /\ pc[u] = "ready" /\ ops[u] > 0
       /\ mutex[ttype[t]] = t
       /\ live # EmptyBag

\* C13: a step of a thread whose handle is for another element type than T,
\* be it the construction of the handle (also by rebinding), an allocate or
\* a deallocate, leaves allocator_t<T>::multi_pool, allocator_t<T>::mutex
\* and every multi-pool of element type T unchanged and creates no
\* multi-pool of type T; a handle made by rebinding from U to T acts on T's
\* multi-pool only.
C13_TypeIsolation ==
    [][\A t \in Threads : \A T \in Types :
          (pc'[t] # pc[t] /\ ttype'[t] # T) =>
             /\ multi_pool'[T] = multi_pool[T]
             /\ mutex'[T] = mutex[T]
             /\ \A o \in DOMAIN objects' :
                   objects'[o].T = T => (o \in DOMAIN objects /\ objects'[o] = objects[o])]_vars

\* both element types have a multi-pool with an owned pointer, and both
\* pointers were allocated by the same thread, which rebound its handle in
\* between
C13_Witness ==
    /\ fault = "none"
    /\ \A T \in Types :
          /\ multi_pool[T] # NULL
          /\ \E p \in BagToSet(live) : Contains(multi_pool[T], p)
    /\ \E t \in Threads :
          ops[t] = 2 /\ \A u \in Threads \ {t} : ops[u] = 0

\* the slot at address p of object o is marked free in the block vector mp
FreedIn(mp, o, p) ==
    \E j \in DOMAIN objects[o].memory_blocks :
       \E i \in 0..(pools_in_block - 1) : \E index \in 0..(PoolSlots - 1) :
          /\ p = SlotAddr(objects[o].memory_blocks[j].ptr, i, index)
          /\ j \in DOMAIN mp /\ SlotBit(mp[j], i, index)

\* C12: in sequential use, when the pointer that handle a returned is
\* deallocated through another handle b for the same element type, the step
\* is the one a deallocate through a would take, the pointer's slot bit is 1
\* afterwards in the multi-pool that issued it, and nobody owns the pointer
\* any more.
C12_CrossHandleFree ==
    [][\A a, b \in Threads :
          (a # b /\ SeqDeallocate(b, a)) =>
             /\ SeqDeallocate(a, a)
             /\ FreedIn(objects'[multi_pool[ttype[a]]].memory_blocks,
                        multi_pool[ttype[a]], arg[a])
             /\ CopiesIn(arg[a], live') = 0]_vars

====
